---- MODULE Spec2Model ----
(***************************************************************************)
(* Scenaro widget SDK: the correlated request/response protocol between    *)
(* the frame-side client (pendingRequests map, per-request timer) and the  *)
(* host-side ScenaroWidget dispatcher (handleMessage), its capability      *)
(* resolver (handleCapabilityRequest / loadAdapter), the engine loader     *)
(* started by open() (loadEngine) and the CommerceEngine cart dispatch     *)
(* (handleCartRequest / sendCartResponse).                                 *)
(*                                                                         *)
(* Both sides run on a single-threaded event loop: one action of the model *)
(* is one task of that loop, i.e. a handler run from its entry (or from    *)
(* the completion of the future it awaits) up to its next await on real    *)
(* I/O.  Awaits that only cross a microtask boundary (an async function    *)
(* without I/O) do not let another task in and stay inside the action.     *)
(*                                                                         *)
(* Objects are kept as long as the program can reach them.  An iframe      *)
(* element is known by what a holder of its reference sees: "null" (no     *)
(* element), "attached" (in the document, contentWindow set) or "removed"  *)
(* (taken out by close(), contentWindow null).  An Engine instance is      *)
(* reachable from the widget's engine field and from the cart handlers     *)
(* running on it; a handler either runs on the instance in that field      *)
(* ("this") or on an instance the field no longer holds ("detached"), of   *)
(* which it keeps the iframe reference.                                    *)
(***************************************************************************)
EXTENDS Integers, Sequences, FiniteSets, Bags, TLC

\* Bounds of the model.
MaxReq == 2          \* requests (identifiers) generated in one behaviour
MaxLoads == 1        \* loadEngine() invocations awaiting an import at once
MaxCalls == 2        \* invocations of one callback in one behaviour
MaxListeners == 2    \* callbacks registered for one event
MaxFetches == 2      \* open() calls awaiting the configuration API at once
MaxFrames == 3       \* iframe elements in the document
MaxItems == 3        \* items in the Magento cart
MaxQueued == 2       \* messages posted to the frame and not yet dispatched
MaxJournal == 2      \* calls and lifecycle messages recorded in one behaviour
MaxNow == 15         \* the clock, in seconds

Ids == 1..MaxReq

VARIABLES
  publicationId,     \* ScenaroWidget.publicationId is non-empty
  requirejs,         \* window.requirejs is defined on the host page
  build,             \* what the CDN serves: the engine build and its connector
  iframe,            \* ScenaroWidget.iframe: "null" or "attached"
  engine,            \* ScenaroWidget.engine: the instance held, or NullEngine
  loads,             \* loadEngine() invocations awaiting each of their imports
  tasks,             \* host handlers of received requests, by arrival
  reported,          \* {cart: true} was sent to the frame now attached
  ready,             \* history: READY was handled while the frame now attached was
  attached,          \* iframe elements with id scenaro-iframe in the document
  metadata,          \* ScenaroWidget.metadata
  listeners,         \* ScenaroWidget.listeners: event -> callbacks registered
  calls,             \* invocations of each callback by emit()
  fetches,           \* config-fetching widget: open() calls awaiting the API
  publicationConfig, \* config-fetching widget: ScenaroWidget.publicationConfig
  toHost,            \* messages posted to the host window, not yet dispatched
  toFrame,           \* messages posted to the frame window, not yet dispatched
  sent,              \* responses transmitted, counted per requestId
  nextId,            \* identifiers generated so far
  pendingRequests,   \* client: requestId -> the promise whose callbacks it holds
  timers,            \* client: armed setTimeout callbacks, by the call that armed them
  requestIds,        \* client: the requestId generated by each call, 0 before it
  deadlines,         \* client: when each call armed its timer, and for how long
  now,               \* the clock of the page, in seconds
  promise,           \* client: state of the promise returned by each send
  settleCalls,       \* client: invocations of a promise's resolve/reject
  cart,              \* Magento: item_id of each item of the customer-data cart
  clears,            \* CartCRUD.clear() calls, by the request they serve
  issued,            \* Magento: item_ids given to quote items so far
  orphaned,          \* history: requests unanswered when their frame was removed
  journal            \* history: calls recorded, and what the last one did, in order

vars == <<publicationId, requirejs, build, iframe, engine, loads, tasks,
          reported, ready, attached, metadata, listeners, calls, fetches,
          publicationConfig, toHost, toFrame, sent, nextId, pendingRequests, timers, requestIds,
          deadlines, now,
          promise,
          settleCalls, cart, clears, issued, orphaned, journal>>

hostVars == <<iframe, engine, loads, tasks, reported, attached>>
apiVars == <<metadata, listeners, calls>>
variantVars == <<fetches, publicationConfig>>
clientVars ==
  <<pendingRequests, timers, requestIds, deadlines, promise, settleCalls>>
pageVars == <<publicationId, requirejs, build>>
magentoVars == <<cart, clears, issued>>

----------------------------------------------------------------------------
\* Message types of the envelope.

cartRequestTypes ==
  {"SCENARO_CART_LIST_REQUEST", "SCENARO_CART_ADD_REQUEST",
   "SCENARO_CART_UPDATE_REQUEST", "SCENARO_CART_REMOVE_REQUEST",
   "SCENARO_CART_CLEAR_REQUEST"}

\* The connector method a cart request type is dispatched to.
MethodOf(type) ==
  CASE type = "SCENARO_CART_LIST_REQUEST" -> "listCart"
    [] type = "SCENARO_CART_ADD_REQUEST" -> "addToCart"
    [] type = "SCENARO_CART_UPDATE_REQUEST" -> "updateCart"
    [] type = "SCENARO_CART_REMOVE_REQUEST" -> "removeCart"
    [] type = "SCENARO_CART_CLEAR_REQUEST" -> "clearCart"
    [] OTHER -> "none"

\* The optional cart methods of the Connector interface.
ConnectorMethods ==
  {"listCart", "addToCart", "updateCart", "removeCart", "clearCart"}

\* Request types whose payload carries a data object.
NeedsData ==
  {"SCENARO_CART_ADD_REQUEST", "SCENARO_CART_UPDATE_REQUEST",
   "SCENARO_CART_REMOVE_REQUEST"}

\* The capability lists the frame asks for.
CapabilityLists == {<<"cart", "video">>, <<"video">>}

\* The cart requests the client sends: <<type, payload.data>>, the data being
\* absent ("none"), an object lacking a field the operation requires
\* ("partial") or an object with every required field ("full").
CartInputs ==
  {<<"SCENARO_CART_LIST_REQUEST", "none">>,
   <<"SCENARO_CART_ADD_REQUEST", "full">>,
   <<"SCENARO_CART_ADD_REQUEST", "partial">>,
   <<"SCENARO_CART_UPDATE_REQUEST", "none">>,
   <<"SCENARO_CART_REMOVE_REQUEST", "full">>,
   <<"SCENARO_CART_CLEAR_REQUEST", "none">>}

CartRequest(type, id, data) ==
  [type |-> type, requestId |-> id, data |-> data,
   capabilities |-> <<>>, adapter |-> FALSE]

CapabilityRequest(id, caps, hint) ==
  [type |-> "SCENARO_CAPABILITY_REQUEST", requestId |-> id, data |-> "none",
   capabilities |-> caps, adapter |-> hint]

EndMessage ==
  [type |-> "SCENARO_END", requestId |-> 0, data |-> "none",
   capabilities |-> <<>>, adapter |-> FALSE]

ReadyMessage ==
  [type |-> "SCENARO_READY", requestId |-> 0, data |-> "none",
   capabilities |-> <<>>, adapter |-> FALSE]

\* A message of a kind the host does not know.
UnknownMessage ==
  [type |-> "SCENARO_FUTURE", requestId |-> 0, data |-> "none",
   capabilities |-> <<>>, adapter |-> FALSE]

\* A message whose data is an object without a type (or a string, a number).
UntypedMessage ==
  [type |-> "undefined", requestId |-> 0, data |-> "none",
   capabilities |-> <<>>, adapter |-> FALSE]

\* A message posted without a payload: event.data is null or undefined.
NullPayload ==
  [type |-> "no payload", requestId |-> 0, data |-> "none",
   capabilities |-> <<>>, adapter |-> FALSE]

NoMessage ==
  [type |-> "NONE", requestId |-> 0, data |-> "none",
   capabilities |-> <<>>, adapter |-> FALSE]

\* Variant of CartResponse: the identifier is read from the latest request
\* instead of the handler's own payload.
CartResponse_LatestId(id, success, data, error) ==
  [type |-> "SCENARO_CART_RESPONSE", requestId |-> nextId, success |-> success,
   data |-> data, error |-> error, capabilities |-> {}, available |-> {}]

CartResponse(id, success, data, error) ==
  [type |-> "SCENARO_CART_RESPONSE", requestId |-> id, success |-> success,
   data |-> data, error |-> error, capabilities |-> {}, available |-> {}]

\* { type: 'SCENARO_METADATA', metadata }
MetadataMessage(map) ==
  [type |-> "SCENARO_METADATA", requestId |-> 0, metadata |-> map]

\* capabilities: the keys of the CapabilitySet; available: the keys mapped to true.
CapabilityResponse(id, keys, trueKeys) ==
  [type |-> "SCENARO_CAPABILITY_RESPONSE", requestId |-> id, success |-> TRUE,
   data |-> "none", error |-> "", capabilities |-> keys, available |-> trueKeys]

----------------------------------------------------------------------------
\* Host page and CDN.

\* The engine builds the CDN may serve: the cart-aware CommerceEngine with the
\* Magento connector, the earlier CommerceEngine without handleCartRequest, and
\* a cart-aware engine whose connector implements none of the optional methods.
CommerceBuild == [handleCartRequest |-> TRUE, methods |-> ConnectorMethods]
LegacyBuild == [handleCartRequest |-> FALSE, methods |-> {}]
BareBuild == [handleCartRequest |-> TRUE, methods |-> {}]

\* The host pages of the model: <<publication id set, requirejs defined, build>>.
Pages ==
  {<<TRUE, TRUE, CommerceBuild>>, <<TRUE, FALSE, CommerceBuild>>,
   <<TRUE, TRUE, LegacyBuild>>, <<TRUE, TRUE, BareBuild>>,
   <<FALSE, TRUE, CommerceBuild>>}

\* detectCMS(): 'magento' when window.requirejs is defined, else null.
detectCMS == requirejs

\* The engine field before any engine has been constructed.
NullEngine ==
  [present |-> FALSE, connector |-> FALSE, iframe |-> "null",
   handleCartRequest |-> FALSE, initialized |-> FALSE, connected |-> FALSE]

\* new EngineClass(): the constructor picks the connector from the page; the
\* instance has no iframe until setIframe is called, and neither initialize()
\* nor connect() has been called on it.
NewEngine ==
  [present |-> TRUE, connector |-> requirejs, iframe |-> "null",
   handleCartRequest |-> build.handleCartRequest, initialized |-> FALSE,
   connected |-> FALSE]

\* ref.contentWindow is non-null: the element exists and is in the document.
ContentWindow(ref) == ref = "attached"

\* What a holder of reference ref sees once close() has removed the iframe.
\* Variant of Removed: the element keeps its contentWindow once removed.
Removed_StillLive(ref) == ref

Removed(ref) == IF ref = "attached" THEN "removed" ELSE ref

\* The keys of the metadata record and the value of a key that is not set.
MetaKeys == {"language", "userId"}
NoMetadata == [k \in MetaKeys |-> "unset"]

\* Variant of Merge: the map given replaces the accumulated one.
Merge_Replace(old, patch) == patch

\* { ...old, ...patch }: the keys the patch sets override.
Merge(old, patch) ==
  [k \in MetaKeys |-> IF patch[k] # "unset" THEN patch[k] ELSE old[k]]

\* The config.metadata objects open() is called with; NoMetadata stands for a
\* call without config or without config.metadata.
Configs ==
  {NoMetadata,
   [language |-> "fr", userId |-> "unset"],
   [language |-> "unset", userId |-> "u1"]}

\* The maps updateMetadata() is called with; NoMetadata stands for {}.
Patches == Configs \cup {[language |-> "en", userId |-> "unset"]}

\* Object.keys(map).length === 0
IsEmpty(map) == \A k \in MetaKeys : map[k] = "unset"

\* The events of the widget and the callbacks the page registers.
Events == {"open", "close", "ready", "end"}
\* "once" is a callback that unregisters itself when it is invoked:
\* function once() { Scenaro.off(event, once); ... }
Callbacks == {"f", "g", "once"}

\* The registrations the page makes: <<event, callback>>.
Registrable == {<<"open", "f">>, <<"close", "g">>, <<"end", "g">>}

\* The number of times cb is registered for event.
Registrations(event, cb) ==
  Cardinality({k \in 1..Len(listeners[event]) : listeners[event][k] = cb})

\* callbacks.indexOf(callback), counted from 1; 0 when it is not in the list.
IndexOf(list, cb) ==
  IF \E k \in 1..Len(list) : list[k] = cb
    THEN CHOOSE k \in 1..Len(list) :
           list[k] = cb /\ \A j \in 1..(k - 1) : list[j] # cb
    ELSE 0

\* callbacks.splice(index, 1)
Splice(list, index) ==
  [k \in 1..(Len(list) - 1) |-> IF k < index THEN list[k] ELSE list[k + 1]]

\* The list of an event after off(event, cb) has run on it.
Off(list, cb) ==
  IF IndexOf(list, cb) # 0 THEN Splice(list, IndexOf(list, cb)) ELSE list

\* callbacks.forEach(cb => cb(data)) from position k on: forEach visits the
\* positions 1..n of the list as it is when each is reached, n being the length
\* at the start, and skips a position the list no longer has. The result is
\* the invocation counts and the list once the loop is over.
RECURSIVE ForEach(_, _, _, _)
ForEach(list, k, n, c) ==
  IF k > n THEN [calls |-> c, list |-> list]
  ELSE IF k > Len(list) THEN ForEach(list, k + 1, n, c)
  ELSE LET cb == list[k]
       IN ForEach(IF cb = "once" THEN Off(list, cb) ELSE list, k + 1, n,
                  [c EXCEPT ![cb] = @ + 1])

\* emit(event): c counts the invocations made so far.
Emit(c, event) ==
  ForEach(listeners[event], 1, Len(listeners[event]), c).calls

\* this.listeners after emit(event).
Emitted(ls, event) ==
  [ls EXCEPT ![event] = ForEach(@, 1, Len(@), calls).list]

\* The invocation counts stay within the bound of the model.
WithinCalls(c) == \A cb \in Callbacks : c[cb] <= MaxCalls

IdleTask ==
  [pc |-> "idle", payload |-> NoMessage, eng |-> "none", engIframe |-> "null",
   idx |-> 0, capabilities |-> {}, available |-> {}, via |-> "none",
   live |-> FALSE, outcome |-> "none"]

\* The delay of the timer of a call: setTimeout(..., 10000), in seconds.
TimeoutDelay == 10

\* The clock advances by steps of this many seconds.
TickLength == 5

\* A call that has armed no timer. asked is the timeout the caller passed as
\* an extra argument (0: none), at the time of the call, delay the delay of
\* the timer armed.
NoDeadline == [at |-> 0, delay |-> 0, asked |-> 0]

\* A call of CartCRUD.clear that has not listed the cart yet.
IdleClear == [pc |-> "idle", items |-> <<>>, inflight |-> {}, removals |-> 0]

Init ==
  /\ \E p \in Pages :
       /\ publicationId = p[1]
       /\ requirejs = p[2]
       /\ build = p[3]
  /\ iframe = "null"
  /\ engine = NullEngine
  /\ loads = [engine |-> 0, connector |-> 0]
  /\ tasks = [i \in Ids |-> IdleTask]
  /\ reported = FALSE
  /\ ready = FALSE
  /\ attached = 0
  /\ metadata = NoMetadata
  /\ listeners = [e \in Events |-> <<>>]
  /\ calls = [cb \in Callbacks |-> 0]
  /\ fetches = [fetch |-> 0, json |-> 0]
  /\ publicationConfig = "null"
  /\ toHost = {}
  /\ toFrame = EmptyBag
  /\ sent = [i \in Ids |-> 0]
  /\ nextId = 0
  /\ pendingRequests = <<>>
  /\ timers = {}
  /\ requestIds = [i \in Ids |-> 0]
  /\ deadlines = [i \in Ids |-> NoDeadline]
  /\ now = 0
  /\ promise = [i \in Ids |-> "none"]
  /\ settleCalls = [i \in Ids |-> 0]
  /\ cart = <<>>
  /\ clears = [i \in Ids |-> IdleClear]
  /\ issued = 0
  /\ orphaned = {}
  /\ journal = [count |-> 0, last |-> <<>>]

----------------------------------------------------------------------------
\* Host control surface: open() and close().

\* Variant of AlreadyOpen: the guard of open() never holds.
AlreadyOpen_Never == FALSE

\* `if (this.iframe) return` of open().
AlreadyOpen == iframe # "null"

\* open(config): no-op when a frame is present; otherwise the metadata of the
\* config is merged, 'open' is emitted, createIframe() attaches a new iframe
\* and loadEngine() starts importing the engine module (both only with a
\* publication id).
open(config) ==
  /\ IF AlreadyOpen
       THEN UNCHANGED <<iframe, attached, loads, metadata, calls, listeners>>
       ELSE /\ metadata' = Merge(metadata, config)
            /\ calls' = Emit(calls, "open")
            /\ listeners' = Emitted(listeners, "open")
            /\ WithinCalls(calls')
            /\ IF publicationId
                 THEN /\ loads.engine + loads.connector < MaxLoads
                      /\ iframe' = "attached"
                      /\ attached' = attached + 1
                      /\ loads' = [loads EXCEPT !.engine = @ + 1]
                 ELSE UNCHANGED <<iframe, attached, loads>>
  /\ UNCHANGED <<engine, tasks, reported>>
  /\ UNCHANGED <<toHost, toFrame, sent, nextId>>
  /\ UNCHANGED clientVars
  /\ UNCHANGED pageVars
  /\ UNCHANGED ready
  /\ UNCHANGED now
  /\ UNCHANGED journal
  /\ UNCHANGED orphaned
  /\ UNCHANGED magentoVars
  /\ UNCHANGED variantVars

\* this.iframe.remove(); this.iframe = null -- every holder of the element now
\* sees it removed; the engine field itself is not touched.
RemoveIframe ==
  /\ iframe' = "null"
  /\ attached' = attached - 1
  /\ engine' = [engine EXCEPT !.iframe = Removed(@)]
  /\ tasks' = [i \in Ids |-> [tasks[i] EXCEPT !.engIframe = Removed(@)]]
  /\ reported' = FALSE
  /\ ready' = FALSE

\* Variant of HasFrame: the guard of close() always holds.
HasFrame_Always == TRUE

\* `if (this.iframe)` of close().
HasFrame == iframe # "null"

\* close(): removes the iframe if there is one and emits 'close'.
Close ==
  /\ IF HasFrame
       THEN /\ RemoveIframe
            /\ calls' = Emit(calls, "close")
            /\ listeners' = Emitted(listeners, "close")
            /\ WithinCalls(calls')
       ELSE UNCHANGED <<iframe, attached, engine, tasks, reported, ready,
                        calls, listeners>>
  /\ UNCHANGED <<loads, toHost, toFrame, sent, nextId, metadata>>
  /\ UNCHANGED clientVars
  /\ UNCHANGED pageVars
  /\ UNCHANGED now
  /\ UNCHANGED journal
  /\ UNCHANGED magentoVars
  /\ UNCHANGED variantVars

close ==
  /\ Close
  /\ UNCHANGED orphaned

\* The requests of the client that are pending and to which no response has
\* been posted.
Outstanding == {i \in Ids : promise[i] = "pending" /\ sent[i] = 0}

\* close(), with the requests it leaves unanswered recorded.
closeRecorded ==
  /\ Close
  /\ orphaned' = IF iframe # "null" THEN orphaned \cup Outstanding
                                     ELSE orphaned

----------------------------------------------------------------------------
\* Transmission to the frame.

\* postMessage on the contentWindow of the iframe behind ref; nothing is
\* posted when the reference is null or the element has been removed.
Post(ref, msg) ==
  IF ContentWindow(ref)
    THEN /\ toFrame' = toFrame (+) SetToBag({msg})
         /\ sent' = [sent EXCEPT ![msg.requestId] = @ + 1]
    ELSE UNCHANGED <<toFrame, sent>>

\* The call or handler being run is recorded with what it does, in order.
Journal(effects) ==
  /\ journal.count < MaxJournal
  /\ journal' = [count |-> journal.count + 1, last |-> effects]

\* Variant of HasMetadata: an empty map is sent as well.
HasMetadata_Always(map) == TRUE

\* Object.keys(this.metadata).length > 0
HasMetadata(map) == ~IsEmpty(map)

\* sendMetadataToIframe() with this.metadata = map: posted when there is an
\* iframe and the map has a key.
sendMetadataToIframe(map) ==
  IF iframe # "null" /\ HasMetadata(map) /\ ContentWindow(iframe)
    THEN toFrame' = toFrame (+) SetToBag({MetadataMessage(map)})
    ELSE UNCHANGED toFrame

\* Variant of sendCartErrorToIframe: the engine-not-ready branch only logs the
\* warning and returns.
sendCartErrorToIframe_Dropped(requestId, error) ==
  UNCHANGED <<toFrame, sent>>

\* ScenaroWidget.sendCartErrorToIframe: through the widget's own iframe.
sendCartErrorToIframe(requestId, error) ==
  Post(iframe, CartResponse(requestId, FALSE, "none", error))

\* Variant of sendCartResponse: only successful outcomes are reported.
sendCartResponse_SuccessOnly(ref, requestId, success, data, error) ==
  IF success
    THEN Post(ref, CartResponse(requestId, success, data, error))
    ELSE UNCHANGED <<toFrame, sent>>

\* CommerceEngine.sendCartResponse: through the iframe the engine holds (ref).
sendCartResponse(ref, requestId, success, data, error) ==
  Post(ref, CartResponse(requestId, success, data, error))

----------------------------------------------------------------------------
\* Engine construction.

ImportOutcomes == {"module", "reject", "noexport"}

\* this.engine.setIframe(this.iframe), guarded by `if (this.iframe)`.
SetIframe(e) ==
  IF iframe # "null" THEN [e EXCEPT !.iframe = iframe] ELSE e

\* `await this.engine.initialize(this.publicationId)`: initialize() only logs,
\* and the promise it returns is resolved when the caller's await resumes,
\* within the same task.
Initialize(e) == [e EXCEPT !.initialized = TRUE]

\* The handlers once this.engine is assigned another instance: those running on
\* the instance held so far keep it, with the iframe it has.
Detached(ts) ==
  [i \in Ids |->
     IF ts[i].eng = "this"
       THEN [ts[i] EXCEPT !.eng = "detached", !.engIframe = engine.iframe]
       ELSE ts[i]]

\* The iframe reference of the engine that handler t runs on.
EngineIframe(t) == IF t.eng = "this" THEN engine.iframe ELSE t.engIframe

----------------------------------------------------------------------------
\* loadEngine(), started by open(): resumed when a dynamic import settles.

\* loadEngine() after its await of import; adapter: a connector is to be loaded.
LoadEngineStep(pc, outcome, adapter) ==
  /\ loads[pc] > 0
  /\ \/ /\ pc = "engine"
        /\ outcome # "module"
        /\ loads' = [loads EXCEPT !.engine = @ - 1]
        /\ UNCHANGED <<engine, tasks>>
     \/ /\ pc = "engine"
        /\ outcome = "module"
        /\ tasks' = Detached(tasks)
        /\ IF adapter
             THEN /\ engine' = NewEngine
                  /\ loads' = [loads EXCEPT !.engine = @ - 1,
                                            !.connector = @ + 1]
             ELSE /\ engine' = Initialize(SetIframe(NewEngine))
                  /\ loads' = [loads EXCEPT !.engine = @ - 1]
     \/ /\ pc = "connector"
        /\ outcome # "noexport"
        /\ engine' = Initialize(SetIframe(engine))
        /\ loads' = [loads EXCEPT !.connector = @ - 1]
        /\ UNCHANGED tasks
  /\ UNCHANGED <<iframe, attached, reported, toHost, toFrame, sent, nextId>>
  /\ UNCHANGED clientVars
  /\ UNCHANGED pageVars
  /\ UNCHANGED ready
  /\ UNCHANGED now
  /\ UNCHANGED journal
  /\ UNCHANGED orphaned
  /\ UNCHANGED magentoVars
  /\ UNCHANGED apiVars

\* `const adapter = this.detectCMS(); if (adapter)`.
loadEngineResume(pc, outcome) ==
  /\ LoadEngineStep(pc, outcome, detectCMS)
  /\ UNCHANGED variantVars

----------------------------------------------------------------------------
\* CommerceEngine.handleCartRequest.

\* The connector has the method and, for ADD/UPDATE/REMOVE, payload.data is
\* truthy (an object, whatever its fields).
Invocable(m) ==
  /\ MethodOf(m.type) \in build.methods
  /\ m.type \in NeedsData => m.data # "none"

UnavailableError(type) ==
  CASE type = "SCENARO_CART_LIST_REQUEST" -> "listCart method not available"
    [] type = "SCENARO_CART_ADD_REQUEST" ->
         "addToCart method not available or missing data"
    [] type = "SCENARO_CART_UPDATE_REQUEST" ->
         "updateCart method not available or missing data"
    [] type = "SCENARO_CART_REMOVE_REQUEST" ->
         "removeCart method not available or missing data"
    [] type = "SCENARO_CART_CLEAR_REQUEST" -> "clearCart method not available"
    [] OTHER -> "Unknown cart request type"

\* The data of a successful response.
ResultOf(type) ==
  IF type = "SCENARO_CART_CLEAR_REQUEST" THEN "cleared" ELSE "cart"

\* What remains of a cart handler that has returned: who answered (via), the
\* outcome of its adapter call, and whether the iframe behind ref, through
\* which it sent its response, had a contentWindow (live).
Finished(via, ref, outcome) ==
  [IdleTask EXCEPT !.pc = "done", !.via = via, !.live = ContentWindow(ref),
                   !.outcome = outcome]

\* Variant of HasConnector: every instance counts as having a connector.
HasConnector_Always(e) == TRUE

\* `this.connector` is set: the constructor found window.requirejs.
HasConnector(e) == e.connector

\* handleCartRequest on the instance in this.engine, up to its first await.
handleCartRequest(m) ==
  IF ~HasConnector(engine)
    THEN /\ sendCartResponse(engine.iframe, m.requestId, FALSE, "none",
                             "No CMS connector detected")
         /\ tasks' = [tasks EXCEPT ![m.requestId] =
                        Finished("engine", engine.iframe, "none")]
    ELSE IF Invocable(m)
      THEN /\ tasks' = [tasks EXCEPT ![m.requestId] =
                          [IdleTask EXCEPT !.pc = "adapter", !.payload = m,
                                           !.eng = "this", !.via = "engine"]]
           /\ UNCHANGED <<toFrame, sent>>
      ELSE /\ sendCartResponse(engine.iframe, m.requestId, FALSE, "none",
                               UnavailableError(m.type))
           /\ tasks' = [tasks EXCEPT ![m.requestId] =
                          Finished("engine", engine.iframe, "none")]

\* How the adapter method a handler awaits may settle: it resolves with a
\* value postMessage can clone, resolves with one it cannot (postMessage then
\* throws inside the try block), rejects with an Error that has a message, or
\* rejects with a value whose message is empty or absent.
AdapterOutcomes == {"resolve", "uncloneable", "reject", "rejectEmpty"}

\* The value the awaited adapter method resolves with: clearCart resolves with
\* nothing, the other methods with the cart they return.
AdapterValue(type, outcome) ==
  IF type = "SCENARO_CART_CLEAR_REQUEST" THEN "undefined"
  ELSE IF outcome = "uncloneable" THEN "uncloneable" ELSE "cart"

\* `result` after the switch: the awaited value, or { cleared: true }.
ResultAfter(type, outcome) ==
  IF type = "SCENARO_CART_CLEAR_REQUEST" THEN ResultOf(type)
  ELSE AdapterValue(type, outcome)

\* err.message of what the catch block receives.
MessageOf(outcome) ==
  CASE outcome = "reject" -> "adapter error"
    [] outcome = "rejectEmpty" -> ""
    [] outcome = "uncloneable" -> "could not be cloned"
    [] OTHER -> ""

\* Variant of ErrorMessage: err.message as it is.
ErrorMessage_Verbatim(message) == message

\* err?.message || 'Unknown error occurred'
ErrorMessage(message) ==
  IF message = "" THEN "Unknown error occurred" ELSE message

\* Whether the catch block is entered: the adapter rejected, or postMessage
\* threw on the result (only called when the iframe has a contentWindow).
Caught(ref, type, outcome) ==
  \/ outcome \in {"reject", "rejectEmpty"}
  \/ /\ ResultAfter(type, outcome) = "uncloneable"
     /\ ContentWindow(ref)

\* The adapter method awaited by handler i settles; the handler runs to its
\* end, through the catch block when something was thrown.
AdapterSettled(i, outcome) ==
  /\ tasks[i].pc = "adapter"
  /\ LET t == tasks[i]
         m == t.payload
         ref == EngineIframe(t)
     IN /\ IF Caught(ref, m.type, outcome)
             THEN sendCartResponse(ref, m.requestId, FALSE, "none",
                                   ErrorMessage(MessageOf(outcome)))
             ELSE sendCartResponse(ref, m.requestId, TRUE,
                                   ResultAfter(m.type, outcome), "")
        /\ tasks' = [tasks EXCEPT ![i] =
                       Finished("engine", ref,
                                IF outcome \in {"reject", "rejectEmpty"}
                                  THEN "reject" ELSE "resolve")]
  /\ UNCHANGED <<iframe, attached, engine, loads, reported, toHost, nextId>>
  /\ UNCHANGED clientVars
  /\ UNCHANGED pageVars
  /\ UNCHANGED ready
  /\ UNCHANGED now
  /\ UNCHANGED journal
  /\ UNCHANGED orphaned
  /\ UNCHANGED variantVars
  /\ UNCHANGED apiVars

\* The awaited adapter method settles, taken as one step.
adapterSettle(i, outcome) ==
  /\ AdapterSettled(i, outcome)
  /\ UNCHANGED magentoVars

----------------------------------------------------------------------------
\* ScenaroWidget.handleCapabilityRequest and loadAdapter.

\* payload.adapter || this.detectCMS()
AdapterOf(m) == m.adapter \/ detectCMS

\* The value capabilities.cart is given after `await this.loadAdapter(adapter)`
\* returns; loadAdapter catches every failure itself, so the assignment in the
\* try block of handleCapabilityRequest is the one that always runs.
CartAfterLoad(outcome) == TRUE

\* Variant of SetCapability: only the available capabilities are written.
SetCapability_OnlyAvailable(t, name, value) ==
  IF value THEN [t EXCEPT !.capabilities = @ \cup {name},
                          !.available = @ \cup {name}]
           ELSE t

\* [name |-> value] written into the CapabilitySet of task t.
SetCapability(t, name, value) ==
  [t EXCEPT !.capabilities = @ \cup {name},
            !.available = IF value THEN @ \cup {name} ELSE @ \ {name}]

\* The for-loop over payload.capabilities from index t.idx, run until the
\* handler suspends on an import of loadAdapter or leaves the loop.
RECURSIVE CapabilityLoop(_)
CapabilityLoop(t) ==
  IF t.idx > Len(t.payload.capabilities)
    THEN [t EXCEPT !.pc = "respond"]
    ELSE LET name == t.payload.capabilities[t.idx]
         IN IF name = "cart" /\ AdapterOf(t.payload)
              THEN IF ~publicationId
                     THEN CapabilityLoop(
                            [SetCapability(t, "cart", CartAfterLoad("nopublication"))
                               EXCEPT !.idx = @ + 1])
                     ELSE [t EXCEPT !.pc = "connector"]
              ELSE CapabilityLoop(
                     [SetCapability(t, name, FALSE) EXCEPT !.idx = @ + 1])

\* Variant of sendCapabilityResponse: a CapabilitySet without any available
\* capability is not reported.
sendCapabilityResponse_IfAvailable(t) ==
  IF t.available = {}
    THEN UNCHANGED <<toFrame, sent, reported>>
    ELSE /\ Post(iframe, CapabilityResponse(t.payload.requestId,
                                            t.capabilities, t.available))
         /\ reported' = (reported \/ (ContentWindow(iframe)
                                          /\ "cart" \in t.available))

\* The CAPABILITY_RESPONSE of a handler that has left the loop.
sendCapabilityResponse(t) ==
  /\ Post(iframe, CapabilityResponse(t.payload.requestId, t.capabilities,
                                     t.available))
  /\ reported' = (reported \/ (ContentWindow(iframe) /\ "cart" \in t.available))

\* Runs handler t of slot i to its next suspension; ts: the other handlers.
RunCapability(i, t, ts) ==
  LET u == CapabilityLoop(t)
  IN IF u.pc = "respond"
       THEN /\ sendCapabilityResponse(u)
            /\ tasks' = [ts EXCEPT ![i] =
                           [u EXCEPT !.pc = "done", !.payload = NoMessage,
                                     !.idx = 0,
                                     !.live = ContentWindow(iframe)]]
       ELSE /\ tasks' = [ts EXCEPT ![i] = u]
            /\ UNCHANGED <<toFrame, sent, reported>>

handleCapabilityRequest(m) ==
  RunCapability(m.requestId,
                [IdleTask EXCEPT !.payload = m, !.idx = 1,
                                 !.via = "capability"],
                tasks)

\* An import awaited by loadAdapter in capability handler i settles.
loadAdapterResume(i, outcome) ==
  /\ tasks[i].pc \in {"connector", "engine"}
  /\ LET t == tasks[i]
         loaded == [SetCapability(t, "cart", CartAfterLoad(outcome))
                      EXCEPT !.idx = @ + 1, !.outcome = outcome]
     IN \/ /\ t.pc = "connector"
           /\ outcome = "module"
           /\ tasks' = [tasks EXCEPT ![i].pc = "engine"]
           /\ UNCHANGED <<engine, toFrame, sent, reported>>
        \/ /\ t.pc = "connector"
           /\ outcome = "reject"
           /\ RunCapability(i, loaded, tasks)
           /\ UNCHANGED engine
        \/ /\ t.pc = "engine"
           /\ outcome # "module"
           /\ RunCapability(i, loaded, tasks)
           /\ UNCHANGED engine
        \/ /\ t.pc = "engine"
           /\ outcome = "module"
           /\ engine' = Initialize(SetIframe(NewEngine))
           /\ RunCapability(i, loaded, Detached(tasks))
  /\ UNCHANGED <<iframe, attached, loads, toHost, nextId>>
  /\ UNCHANGED clientVars
  /\ UNCHANGED pageVars
  /\ UNCHANGED ready
  /\ UNCHANGED now
  /\ UNCHANGED journal
  /\ UNCHANGED orphaned
  /\ UNCHANGED magentoVars
  /\ UNCHANGED variantVars
  /\ UNCHANGED apiVars

----------------------------------------------------------------------------
\* ScenaroWidget.handleMessage.

\* `payload.type` with payload = event.data null or undefined: a TypeError.
Throws(m) == m = NullPayload

Classify(m) ==
  IF Throws(m) THEN "throws"
  ELSE IF m.type = "SCENARO_CAPABILITY_REQUEST" THEN "capability"
  ELSE IF m.type \in cartRequestTypes THEN "cart"
  ELSE IF m.type = "SCENARO_READY" THEN "ready"
  ELSE IF m.type = "SCENARO_END" THEN "end"
  ELSE "ignored"

\* `if (this.engine) this.engine.connect()` of the READY case.
Connect(e) == IF e.present THEN [e EXCEPT !.connected = TRUE] ELSE e

\* this.engine && typeof this.engine.handleCartRequest === 'function'
EngineReady == engine.present /\ engine.handleCartRequest

\* handleMessage(event) with event.data = m, run to its end.
HandleMessage(m) ==
  /\ m \in toHost
  /\ toHost' = toHost \ {m}
  /\ CASE Classify(m) = "capability" ->
            /\ handleCapabilityRequest(m)
            /\ UNCHANGED <<iframe, attached, engine, ready, calls, listeners>>
       [] Classify(m) = "cart" ->
            /\ IF EngineReady
                 THEN handleCartRequest(m)
                 ELSE /\ sendCartErrorToIframe(m.requestId,
                                               "Cart engine not ready")
                      /\ tasks' = [tasks EXCEPT ![m.requestId] =
                                     Finished("widget", iframe, "none")]
            /\ UNCHANGED <<iframe, attached, engine, reported, ready, calls,
                           listeners>>
       [] Classify(m) = "ready" ->
            /\ calls' = Emit(calls, "ready")
            /\ listeners' = Emitted(listeners, "ready")
            /\ WithinCalls(calls')
            /\ sendMetadataToIframe(metadata)
            /\ BagCardinality(toFrame') <= MaxQueued
            /\ engine' = Connect(engine)
            /\ ready' = (iframe # "null")
            /\ UNCHANGED <<iframe, attached, tasks, reported, sent>>
       [] Classify(m) = "end" ->
            /\ IF HasFrame
                 THEN /\ RemoveIframe
                      /\ calls' = Emit(Emit(calls, "end"), "close")
                      /\ listeners' = Emitted(Emitted(listeners, "end"),
                                              "close")
                 ELSE /\ UNCHANGED <<iframe, attached, engine, tasks, reported,
                                      ready>>
                      /\ calls' = Emit(calls, "end")
                      /\ listeners' = Emitted(listeners, "end")
            /\ WithinCalls(calls')
            /\ UNCHANGED <<toFrame, sent>>
       [] OTHER ->
            UNCHANGED <<iframe, attached, engine, tasks, reported, ready,
                        toFrame, sent, calls, listeners>>
  /\ UNCHANGED <<loads, nextId, metadata>>
  /\ UNCHANGED clientVars
  /\ UNCHANGED pageVars
  /\ UNCHANGED now
  /\ UNCHANGED orphaned
  /\ UNCHANGED magentoVars
  /\ UNCHANGED variantVars

handleMessage(m) ==
  /\ HandleMessage(m)
  /\ UNCHANGED journal

\* The statements handleMessage runs for m, in the order it runs them.
Effects(m) ==
  CASE Classify(m) = "throws" -> <<"TypeError">>
    [] Classify(m) = "capability" -> <<"handleCapabilityRequest">>
    [] Classify(m) = "cart" ->
         IF EngineReady THEN <<"engine.handleCartRequest">>
                        ELSE <<"sendCartErrorToIframe">>
    [] Classify(m) = "ready" ->
         <<"emit ready", "sendMetadataToIframe">>
           \o (IF engine.present THEN <<"engine.connect">> ELSE <<>>)
    [] Classify(m) = "end" ->
         <<"emit end">>
           \o (IF engine.present THEN <<"engine.onEnd">> ELSE <<>>)
           \o (IF iframe # "null" THEN <<"iframe.remove", "emit close">>
                                  ELSE <<>>)
    [] OTHER -> <<>>

\* handleMessage, with the statements it runs recorded.
handleMessageRecorded(m) ==
  /\ HandleMessage(m)
  /\ Journal(Effects(m))

----------------------------------------------------------------------------
\* The frame application: capability negotiation and the END signal.

frameSendCapability(caps, hint) ==
  /\ iframe # "null"
  /\ nextId < MaxReq
  /\ nextId' = nextId + 1
  /\ toHost' = toHost \cup {CapabilityRequest(nextId + 1, caps, hint)}
  /\ UNCHANGED <<toFrame, sent>>
  /\ UNCHANGED hostVars
  /\ UNCHANGED clientVars
  /\ UNCHANGED pageVars
  /\ UNCHANGED ready
  /\ UNCHANGED now
  /\ UNCHANGED journal
  /\ UNCHANGED orphaned
  /\ UNCHANGED magentoVars
  /\ UNCHANGED variantVars
  /\ UNCHANGED apiVars

frameSendEnd ==
  /\ iframe # "null"
  /\ toHost' = toHost \cup {EndMessage}
  /\ UNCHANGED <<toFrame, sent, nextId>>
  /\ UNCHANGED hostVars
  /\ UNCHANGED clientVars
  /\ UNCHANGED pageVars
  /\ UNCHANGED ready
  /\ UNCHANGED now
  /\ UNCHANGED journal
  /\ UNCHANGED orphaned
  /\ UNCHANGED magentoVars
  /\ UNCHANGED variantVars
  /\ UNCHANGED apiVars

frameSendReady ==
  /\ iframe # "null"
  /\ toHost' = toHost \cup {ReadyMessage}
  /\ UNCHANGED <<toFrame, sent, nextId>>
  /\ UNCHANGED hostVars
  /\ UNCHANGED clientVars
  /\ UNCHANGED pageVars
  /\ UNCHANGED ready
  /\ UNCHANGED now
  /\ UNCHANGED journal
  /\ UNCHANGED orphaned
  /\ UNCHANGED magentoVars
  /\ UNCHANGED variantVars
  /\ UNCHANGED apiVars

\* Any window posts m to the page.
postMessage(m) ==
  /\ toHost' = toHost \cup {m}
  /\ UNCHANGED <<toFrame, sent, nextId>>
  /\ UNCHANGED hostVars
  /\ UNCHANGED clientVars
  /\ UNCHANGED pageVars
  /\ UNCHANGED ready
  /\ UNCHANGED now
  /\ UNCHANGED journal
  /\ UNCHANGED orphaned
  /\ UNCHANGED magentoVars
  /\ UNCHANGED variantVars
  /\ UNCHANGED apiVars

----------------------------------------------------------------------------
\* The frame-side client: sendCartRequest, the response listener, the timer.

\* document.getElementById('scenaro-iframe') has a contentWindow.
TargetPresent == ContentWindow(iframe)

\* A promise callback is invoked: the first invocation settles the promise,
\* later ones leave its state alone.
Settle(p, state) ==
  /\ promise' = [promise EXCEPT ![p] = IF @ = "pending" THEN state ELSE @]
  /\ settleCalls' = [settleCalls EXCEPT ![p] = @ + 1]

\* Variant of Delete: the entry is left in the map.
Delete_Kept(map, k) == map

\* pendingRequests.delete(k)
Delete(map, k) == [x \in DOMAIN map \ {k} |-> map[x]]

\* Variant of Set: the request is transmitted without being stored.
Set_Dropped(map, k, v) == map

\* Variant of Set: the callbacks are stored under every key of the map.
Set_Shared(map, k, v) == [x \in DOMAIN map \cup {k} |-> v]

\* pendingRequests.set(k, v)
Set(map, k, v) == [x \in DOMAIN map \cup {k} |-> IF x = k THEN v ELSE map[x]]

\* The delay of the timer a call arms: the literal of the source, whatever
\* further argument the caller passes.
DelayOf(asked) == TimeoutDelay

\* One call of sendCartRequest (or sendRequest) whose generateRequestId
\* returns requestId and whose caller passes the timeout asked as a further
\* argument (0: none); the call is the p-th of the client, and the promise it
\* returns, its callbacks and its timer are known by p.
sendCartRequestWith(type, data, requestId, asked) ==
  /\ nextId < MaxReq
  /\ nextId' = nextId + 1
  /\ LET p == nextId + 1
     IN /\ requestIds' = [requestIds EXCEPT ![p] = requestId]
        /\ pendingRequests' = Set(pendingRequests, requestId, p)
        /\ IF ~TargetPresent
             THEN /\ promise' = [promise EXCEPT ![p] = "rejected_target"]
                  /\ settleCalls' = [settleCalls EXCEPT ![p] = @ + 1]
                  /\ UNCHANGED <<toHost, timers, deadlines>>
             ELSE /\ promise' = [promise EXCEPT ![p] = "pending"]
                  /\ toHost' = toHost \cup {CartRequest(type, requestId, data)}
                  /\ timers' = timers \cup {p}
                  /\ deadlines' = [deadlines EXCEPT ![p] =
                                     [at |-> now, delay |-> DelayOf(asked),
                                      asked |-> asked]]
                  /\ UNCHANGED settleCalls
  /\ UNCHANGED <<toFrame, sent>>
  /\ UNCHANGED hostVars
  /\ UNCHANGED pageVars
  /\ UNCHANGED ready
  /\ UNCHANGED now
  /\ UNCHANGED journal
  /\ UNCHANGED orphaned
  /\ UNCHANGED magentoVars
  /\ UNCHANGED variantVars
  /\ UNCHANGED apiVars

\* A call that passes no timeout.
sendCartRequestAs(type, data, requestId) ==
  sendCartRequestWith(type, data, requestId, 0)

\* A call whose generated identifier differs from every identifier generated
\* before (time stamp and random suffix do not collide).
sendCartRequest(type, data) == sendCartRequestAs(type, data, nextId + 1)

\* Variant of Lookup: responses are matched in order of registration, the
\* oldest entry of the map first.
Lookup_Oldest(m) ==
  IF DOMAIN pendingRequests = {}
    THEN m.requestId
    ELSE CHOOSE k \in DOMAIN pendingRequests :
           \A j \in DOMAIN pendingRequests : k <= j

\* The entry of the map a response is matched with: its requestId.
Lookup(m) == m.requestId

\* Variant of SettlementOf: a response reporting a failure rejects the promise.
SettlementOf_RejectFailures(m) ==
  IF m.success THEN "fulfilled" ELSE "rejected_response"

\* How the listener settles the promise of the request a response is matched
\* with: resolveRequest({ success, data, error }), whatever success is.
SettlementOf(m) == "fulfilled"

\* The 'message' listener of the client.
listener(m) ==
  /\ BagIn(m, toFrame)
  /\ toFrame' = toFrame (-) SetToBag({m})
  /\ IF m.type = "SCENARO_CART_RESPONSE" /\ Lookup(m) \in DOMAIN pendingRequests
       THEN /\ pendingRequests' = Delete(pendingRequests, Lookup(m))
            /\ Settle(pendingRequests[Lookup(m)], SettlementOf(m))
       ELSE UNCHANGED <<pendingRequests, promise, settleCalls>>
  /\ UNCHANGED <<timers, requestIds, deadlines, toHost, sent, nextId>>
  /\ UNCHANGED hostVars
  /\ UNCHANGED pageVars
  /\ UNCHANGED ready
  /\ UNCHANGED now
  /\ UNCHANGED journal
  /\ UNCHANGED orphaned
  /\ UNCHANGED magentoVars
  /\ UNCHANGED variantVars
  /\ UNCHANGED apiVars

\* The setTimeout callback armed by call k: it looks its requestId up in the
\* map and rejects the promise of its own call.
timeout(k) ==
  /\ k \in timers
  /\ timers' = timers \ {k}
  /\ IF requestIds[k] \in DOMAIN pendingRequests
       THEN /\ pendingRequests' = Delete(pendingRequests, requestIds[k])
            /\ Settle(k, "rejected_timeout")
       ELSE UNCHANGED <<pendingRequests, promise, settleCalls>>
  /\ UNCHANGED <<toHost, toFrame, sent, nextId, requestIds, deadlines>>
  /\ UNCHANGED hostVars
  /\ UNCHANGED pageVars
  /\ UNCHANGED ready
  /\ UNCHANGED now
  /\ UNCHANGED journal
  /\ UNCHANGED orphaned
  /\ UNCHANGED magentoVars
  /\ UNCHANGED variantVars
  /\ UNCHANGED apiVars

\* The timer of call k is due: its delay has elapsed since it was armed.
Due(k) == now >= deadlines[k].at + deadlines[k].delay

\* The setTimeout callback of call k, run once its delay has elapsed.
timeoutAt(k) ==
  /\ Due(k)
  /\ timeout(k)

\* Time passes.
tick ==
  /\ now < MaxNow
  /\ now' = now + TickLength
  /\ UNCHANGED <<toHost, toFrame, sent, nextId>>
  /\ UNCHANGED hostVars
  /\ UNCHANGED clientVars
  /\ UNCHANGED pageVars
  /\ UNCHANGED ready
  /\ UNCHANGED journal
  /\ UNCHANGED orphaned
  /\ UNCHANGED magentoVars
  /\ UNCHANGED variantVars
  /\ UNCHANGED apiVars

----------------------------------------------------------------------------
\* The page registering callbacks.

\* on(event, callback): the callback is appended to the list of the event.
on(event, cb) ==
  /\ Len(listeners[event]) < MaxListeners
  /\ listeners' = [listeners EXCEPT ![event] = Append(@, cb)]
  /\ UNCHANGED <<metadata, calls>>
  /\ UNCHANGED <<toHost, toFrame, sent, nextId>>
  /\ UNCHANGED hostVars
  /\ UNCHANGED clientVars
  /\ UNCHANGED pageVars
  /\ UNCHANGED ready
  /\ UNCHANGED now
  /\ UNCHANGED journal
  /\ UNCHANGED orphaned
  /\ UNCHANGED magentoVars
  /\ UNCHANGED variantVars

\* updateMetadata(patch)
updateMetadata(patch) ==
  /\ metadata' = Merge(metadata, patch)
  /\ IF iframe # "null"
       THEN sendMetadataToIframe(metadata')
       ELSE UNCHANGED toFrame
  /\ BagCardinality(toFrame') <= MaxQueued
  /\ Journal(IF toFrame' # toFrame THEN <<"merge", "post">> ELSE <<"merge">>)
  /\ UNCHANGED <<listeners, calls>>
  /\ UNCHANGED <<toHost, sent, nextId>>
  /\ UNCHANGED hostVars
  /\ UNCHANGED clientVars
  /\ UNCHANGED pageVars
  /\ UNCHANGED ready
  /\ UNCHANGED now
  /\ UNCHANGED orphaned
  /\ UNCHANGED magentoVars
  /\ UNCHANGED variantVars

\* off(event, callback): the first registration of the callback for the event
\* is removed, if there is one.
off(event, cb) ==
  /\ listeners' = [listeners EXCEPT ![event] = Off(@, cb)]
  /\ UNCHANGED <<metadata, calls>>
  /\ UNCHANGED <<toHost, toFrame, sent, nextId>>
  /\ UNCHANGED hostVars
  /\ UNCHANGED clientVars
  /\ UNCHANGED pageVars
  /\ UNCHANGED ready
  /\ UNCHANGED now
  /\ UNCHANGED journal
  /\ UNCHANGED orphaned
  /\ UNCHANGED magentoVars
  /\ UNCHANGED variantVars

----------------------------------------------------------------------------
\* The widget that fetches the publication configuration inside open().

\* createIframe() and loadEngine() up to its await, with configuration cfg:
\* without a configuration neither does anything; with one a new iframe is
\* appended and becomes this.iframe, and the engine import starts.
CreateAndLoad(cfg) ==
  IF cfg = "null"
    THEN UNCHANGED <<iframe, attached, loads>>
    ELSE /\ attached < MaxFrames
         /\ loads.engine + loads.connector < MaxLoads
         /\ iframe' = "attached"
         /\ attached' = attached + 1
         /\ loads' = [loads EXCEPT !.engine = @ + 1]

\* open() of the config-fetching widget, up to its await of the fetch.
openConfig ==
  /\ IF AlreadyOpen
       THEN UNCHANGED <<iframe, attached, loads, calls, listeners, fetches>>
       ELSE /\ calls' = Emit(calls, "open")
            /\ listeners' = Emitted(listeners, "open")
            /\ WithinCalls(calls')
            /\ IF publicationId
                 THEN /\ fetches.fetch + fetches.json < MaxFetches
                      /\ fetches' = [fetches EXCEPT !.fetch = @ + 1]
                      /\ UNCHANGED <<iframe, attached, loads>>
                 ELSE /\ CreateAndLoad(publicationConfig)
                      /\ UNCHANGED fetches
  /\ UNCHANGED <<engine, tasks, reported, metadata>>
  /\ UNCHANGED <<publicationConfig, toHost, toFrame, sent, nextId>>
  /\ UNCHANGED clientVars
  /\ UNCHANGED pageVars
  /\ UNCHANGED ready
  /\ UNCHANGED now
  /\ UNCHANGED journal
  /\ UNCHANGED orphaned
  /\ UNCHANGED magentoVars

\* What the API returns: a response that is not ok or a failed request, a body
\* to be read, a configuration without and with a connector.
FetchOutcomes == {"failed", "ok", "plain", "connector"}

\* An open() of the config-fetching widget resumes: fetchPublicationConfig
\* after its await of fetch (pc = "fetch") or of response.json() (pc = "json"),
\* then, once it has returned, createIframe() and loadEngine().
fetchResume(pc, outcome) ==
  /\ fetches[pc] > 0
  /\ \/ /\ pc = "fetch"
        /\ outcome = "ok"
        /\ fetches' = [fetches EXCEPT !.fetch = @ - 1, !.json = @ + 1]
        /\ UNCHANGED <<publicationConfig, iframe, attached, loads>>
     \/ /\ pc = "fetch"
        /\ outcome = "failed"
        /\ fetches' = [fetches EXCEPT !.fetch = @ - 1]
        /\ publicationConfig' = "null"
        /\ CreateAndLoad("null")
     \/ /\ pc = "json"
        /\ outcome # "ok"
        /\ fetches' = [fetches EXCEPT !.json = @ - 1]
        /\ publicationConfig' = (IF outcome = "failed" THEN "null" ELSE outcome)
        /\ CreateAndLoad(publicationConfig')
  /\ UNCHANGED <<engine, tasks, reported>>
  /\ UNCHANGED <<toHost, toFrame, sent, nextId>>
  /\ UNCHANGED apiVars
  /\ UNCHANGED clientVars
  /\ UNCHANGED pageVars
  /\ UNCHANGED ready
  /\ UNCHANGED now
  /\ UNCHANGED journal
  /\ UNCHANGED orphaned
  /\ UNCHANGED magentoVars

\* loadEngine() of the config-fetching widget after its await of import:
\* `if (this.publicationConfig?.connector)`.
loadEngineResumeConfig(pc, outcome) ==
  /\ LoadEngineStep(pc, outcome, publicationConfig = "connector")
  /\ UNCHANGED variantVars

----------------------------------------------------------------------------

Next ==
  \/ open(NoMetadata)
  \/ close
  \/ \E pc \in {"engine", "connector"}, o \in ImportOutcomes :
       loadEngineResume(pc, o)
  \/ \E m \in toHost : handleMessage(m)
  \/ \E i \in Ids, o \in ImportOutcomes : loadAdapterResume(i, o)
  \/ \E i \in Ids, o \in AdapterOutcomes : adapterSettle(i, o)
  \/ \E c \in CapabilityLists, h \in BOOLEAN : frameSendCapability(c, h)
  \/ frameSendEnd
  \/ \E c \in CartInputs : sendCartRequest(c[1], c[2])
  \/ \E m \in BagToSet(toFrame) : listener(m)
  \/ \E k \in Ids : timeout(k)

Spec == Init /\ [][Next]_vars

\* The control surface of the widget used by the host page: sessions opened
\* with metadata and closed by the page or by the END signal of the frame,
\* with callbacks registered for the events.
LifecycleNext ==
  \/ \E c \in Configs : open(c)
  \/ close
  \/ \E pc \in {"engine", "connector"}, o \in ImportOutcomes :
       loadEngineResume(pc, o)
  \/ \E m \in toHost : handleMessage(m)
  \/ frameSendEnd
  \/ \E r \in Registrable : on(r[1], r[2])

LifecycleSpec == Init /\ [][LifecycleNext]_vars

\* The config-fetching widget driven by the host page.
ConfigNext ==
  \/ openConfig
  \/ close
  \/ \E pc \in {"fetch", "json"}, o \in FetchOutcomes : fetchResume(pc, o)
  \/ \E pc \in {"engine", "connector"}, o \in ImportOutcomes :
       loadEngineResumeConfig(pc, o)

ConfigSpec == Init /\ [][ConfigNext]_vars

----------------------------------------------------------------------------
\* CartCRUD.clear of the Magento connector, one step per request to Magento.

\* The shopper puts an item in the cart; item_id 0 stands for an item whose
\* item_id is missing or falsy in the customer-data section.
shopperAdds(id) ==
  /\ Len(cart) < MaxItems
  /\ id # 0 => /\ \A k \in 1..Len(cart) : cart[k] # id
               /\ \A smaller \in 1..(id - 1) :
                    \E k \in 1..Len(cart) : cart[k] = smaller
  /\ cart' = Append(cart, id)
  /\ UNCHANGED <<clears, issued>>
  /\ UNCHANGED hostVars
  /\ UNCHANGED <<toHost, toFrame, sent, nextId>>
  /\ UNCHANGED clientVars
  /\ UNCHANGED pageVars
  /\ UNCHANGED ready
  /\ UNCHANGED now
  /\ UNCHANGED journal
  /\ UNCHANGED orphaned
  /\ UNCHANGED variantVars
  /\ UNCHANGED apiVars

\* An ADD served by Magento while a clear may be running: /checkout/cart/add
\* succeeds and the reload shows the new quote item, under an item_id Magento
\* has never given before (hasId), or without one in the section data.
cartAdded(hasId) ==
  /\ Len(cart) < MaxItems
  /\ IF hasId
       THEN /\ issued < MaxItems
            /\ issued' = issued + 1
            /\ cart' = Append(cart, issued + 1)
       ELSE /\ cart' = Append(cart, 0)
            /\ UNCHANGED issued
  /\ UNCHANGED clears
  /\ UNCHANGED hostVars
  /\ UNCHANGED <<toHost, toFrame, sent, nextId>>
  /\ UNCHANGED clientVars
  /\ UNCHANGED pageVars
  /\ UNCHANGED ready
  /\ UNCHANGED now
  /\ UNCHANGED journal
  /\ UNCHANGED orphaned
  /\ UNCHANGED variantVars
  /\ UNCHANGED apiVars

\* The items of the listing at or after position from that `if (item.item_id)`
\* lets through.
Removable(items, from) == {k \in from..Len(items) : items[k] # 0}

\* Variant of Without: the delete route empties the cart.
Without_Everything(items, itemId) == <<>>

\* Variant of NextRemovals: every remaining removal is started at once.
NextRemovals_AllAtOnce(items, from) == Removable(items, from)

\* The removals the for-loop of clear() starts when it runs on from position
\* from: `await this.remove(...)` of the first item that has an item_id.
NextRemovals(items, from) ==
  LET rest == Removable(items, from)
  IN IF rest = {} THEN {}
     ELSE {CHOOSE k \in rest : \A other \in rest : k <= other}

\* The cart after /checkout/cart/delete/id/<itemId>/ and the reload.
Without(items, itemId) == SelectSeq(items, LAMBDA id : id # itemId)

\* clear() runs its loop on from position from: it suspends on the removals
\* it starts, or leaves the loop and clearCart resolves.
ClearLoop(i, items, from, removals) ==
  LET batch == NextRemovals(items, from)
  IN IF batch = {}
       THEN /\ AdapterSettled(i, "resolve")
            /\ clears' = [clears EXCEPT ![i] =
                            [pc |-> "cleared", items |-> items,
                             inflight |-> {}, removals |-> removals]]
       ELSE /\ clears' = [clears EXCEPT ![i] =
                            [pc |-> "remove", items |-> items,
                             inflight |-> batch, removals |-> removals]]
            /\ UNCHANGED hostVars
            /\ UNCHANGED <<toHost, toFrame, sent, nextId>>
            /\ UNCHANGED clientVars
            /\ UNCHANGED pageVars
            /\ UNCHANGED ready
            /\ UNCHANGED now
            /\ UNCHANGED journal
            /\ UNCHANGED orphaned
            /\ UNCHANGED variantVars
            /\ UNCHANGED apiVars

\* Variant of ClearThrows: clear() logs the error and returns normally.
ClearThrows_Swallowed(i) ==
  /\ AdapterSettled(i, "resolve")
  /\ clears' = [clears EXCEPT ![i].pc = "failed", ![i].inflight = {}]

\* A CLEAR handler's clearCart fails: the error is thrown through clear() and
\* clearCart() into the catch block of handleCartRequest.
ClearThrows(i) ==
  /\ AdapterSettled(i, "reject")
  /\ clears' = [clears EXCEPT ![i].pc = "failed", ![i].inflight = {}]

\* `await this.list()` of clear() settles: the Magento dependencies are loaded
\* (or not) and the cart of customer-data is read.
clearList(i, outcome) ==
  /\ tasks[i].pc = "adapter"
  /\ tasks[i].payload.type = "SCENARO_CART_CLEAR_REQUEST"
  /\ clears[i].pc = "idle"
  /\ IF outcome = "ok"
       THEN ClearLoop(i, cart, 1, 0)
       ELSE ClearThrows(i)
  /\ UNCHANGED <<cart, issued>>

\* The removal of the item at position k of the listing settles: Magento has
\* deleted the item and the cart is reloaded, or the request has failed.
clearRemoved(i, k, outcome) ==
  /\ clears[i].pc = "remove"
  /\ k \in clears[i].inflight
  /\ LET c == clears[i]
     IN IF outcome = "ok"
          THEN /\ cart' = Without(cart, c.items[k])
               /\ IF c.inflight = {k}
                    THEN ClearLoop(i, c.items, k + 1, c.removals + 1)
                    ELSE /\ clears' = [clears EXCEPT
                                         ![i].inflight = @ \ {k},
                                         ![i].removals = @ + 1]
                         /\ UNCHANGED hostVars
                         /\ UNCHANGED <<toHost, toFrame, sent, nextId>>
                         /\ UNCHANGED clientVars
                         /\ UNCHANGED pageVars
                         /\ UNCHANGED ready
                         /\ UNCHANGED now
                         /\ UNCHANGED journal
                         /\ UNCHANGED orphaned
                         /\ UNCHANGED variantVars
                         /\ UNCHANGED apiVars
          ELSE /\ ClearThrows(i)
               /\ UNCHANGED cart
  /\ UNCHANGED issued

ClearNext ==
  \/ open(NoMetadata)
  \/ \E pc \in {"engine", "connector"}, o \in ImportOutcomes :
       loadEngineResume(pc, o)
  \/ \E id \in 0..MaxItems : shopperAdds(id)
  \/ sendCartRequest("SCENARO_CART_CLEAR_REQUEST", "none")
  \/ \E m \in toHost : handleMessage(m)
  \/ \E i \in Ids, o \in {"ok", "fail"} : clearList(i, o)
  \/ \E i \in Ids, k \in 1..MaxItems, o \in {"ok", "fail"} :
       clearRemoved(i, k, o)
  \/ \E m \in BagToSet(toFrame) : listener(m)

ClearSpec == Init /\ [][ClearNext]_vars

\* CLEAR requests racing the ADDs Magento serves meanwhile.
RaceNext ==
  \/ open(NoMetadata)
  \/ \E pc \in {"engine", "connector"}, o \in ImportOutcomes :
       loadEngineResume(pc, o)
  \/ \E hasId \in BOOLEAN : cartAdded(hasId)
  \/ sendCartRequest("SCENARO_CART_CLEAR_REQUEST", "none")
  \/ \E m \in toHost : handleMessage(m)
  \/ \E i \in Ids, o \in {"ok", "fail"} : clearList(i, o)
  \/ \E i \in Ids, k \in 1..MaxItems, o \in {"ok", "fail"} :
       clearRemoved(i, k, o)
  \/ \E m \in BagToSet(toFrame) : listener(m)

RaceSpec == Init /\ [][RaceNext]_vars

\* The READY signal of the frame racing the engine load started by open():
\* the frame application posts READY once it has loaded, once per session.
ConnectNext ==
  \/ open(NoMetadata)
  \/ close
  \/ \E pc \in {"engine", "connector"}, o \in ImportOutcomes :
       loadEngineResume(pc, o)
  \/ on("ready", "f")
  \/ ~ready /\ frameSendReady
  \/ frameSendEnd
  \/ \E m \in toHost : handleMessage(m)

\* A message posted to the window is dispatched, and a dynamic import settles.
ConnectFairness ==
  /\ WF_vars(\E m \in toHost : handleMessage(m))
  /\ WF_vars(\E pc \in {"engine", "connector"}, o \in ImportOutcomes :
               loadEngineResume(pc, o))

ConnectSpec == Init /\ [][ConnectNext]_vars /\ ConnectFairness

\* Sessions opened and ended by a page that registered one listener for
\* 'open' and one for 'close' before it opened the first.
Watching == listeners.open = <<"f">> /\ listeners.close = <<"g">>

EmitNext ==
  \/ listeners.open = <<>> /\ on("open", "f")
  \/ listeners.close = <<>> /\ on("close", "g")
  \/ Watching /\ open(NoMetadata)
  \/ close
  \/ \E pc \in {"engine", "connector"}, o \in ImportOutcomes :
       loadEngineResume(pc, o)
  \/ frameSendEnd
  \/ \E m \in toHost : handleMessage(m)

EmitSpec == Init /\ [][EmitNext]_vars

\* Cart requests across close() and a reopening of the session.
CloseNext ==
  \/ open(NoMetadata)
  \/ closeRecorded
  \/ \E pc \in {"engine", "connector"}, o \in ImportOutcomes :
       loadEngineResume(pc, o)
  \/ \E m \in toHost : handleMessage(m)
  \/ \E i \in Ids, o \in AdapterOutcomes : adapterSettle(i, o)
  \/ \E c \in CartInputs : sendCartRequest(c[1], c[2])
  \/ \E m \in BagToSet(toFrame) : listener(m)
  \/ \E k \in Ids : timeout(k)

CloseSpec == Init /\ [][CloseNext]_vars

\* Cart requests whose generated identifiers may collide: generateRequestId
\* draws from the clock and Math.random() and checks nothing. The host takes
\* a request up once the handler of an earlier request with the same
\* identifier has returned.
CollisionNext ==
  \/ open(NoMetadata)
  \/ \E pc \in {"engine", "connector"}, o \in ImportOutcomes :
       loadEngineResume(pc, o)
  \/ \E c \in CartInputs, id \in Ids : sendCartRequestAs(c[1], c[2], id)
  \/ \E m \in toHost :
       /\ tasks[m.requestId].pc \in {"idle", "done"}
       /\ handleMessage(m)
  \/ \E i \in Ids, o \in AdapterOutcomes : adapterSettle(i, o)
  \/ \E m \in BagToSet(toFrame) : listener(m)
  \/ \E k \in Ids : timeout(k)

CollisionSpec == Init /\ [][CollisionNext]_vars

\* The page registering and unregistering callbacks around open() and close().
ListenerEvents == {"open", "close"}

ListenerNext ==
  \/ open(NoMetadata)
  \/ close
  \/ \E e \in ListenerEvents, cb \in Callbacks : on(e, cb)
  \/ \E e \in ListenerEvents, cb \in Callbacks : off(e, cb)

ListenerSpec == Init /\ [][ListenerNext]_vars

\* The session: metadata, READY and END around open() and close().
SessionNext ==
  \/ \E c \in Configs : open(c)
  \/ close
  \/ \E patch \in Patches : updateMetadata(patch)
  \/ \E m \in BagToSet(toFrame) : listener(m)

SessionSpec == Init /\ [][SessionNext]_vars

\* The lifecycle signals: READY, END and messages of no known kind, posted
\* one at a time, with listeners registered for 'ready' and 'end'.
SignalConfigs == {NoMetadata, [language |-> "fr", userId |-> "unset"]}

SignalRegistrable == {<<"ready", "once">>, <<"ready", "g">>}

SignalNext ==
  \/ \E c \in SignalConfigs : open(c)
  \/ \E pc \in {"engine", "connector"}, o \in ImportOutcomes :
       loadEngineResume(pc, o)
  \/ \E r \in SignalRegistrable : on(r[1], r[2])
  \/ toHost = {} /\ frameSendReady
  \/ toHost = {} /\ frameSendEnd
  \/ \E m \in {UnknownMessage, UntypedMessage, NullPayload} :
       toHost = {} /\ postMessage(m)
  \/ \E m \in toHost : handleMessageRecorded(m)
  \/ \E m \in BagToSet(toFrame) : listener(m)

SignalSpec == Init /\ [][SignalNext]_vars

\* The timeouts the callers ask for: none, or five seconds.
AskedTimeouts == {0, 5}

\* Cart requests with the clock running.
TimerNext ==
  \/ open(NoMetadata)
  \/ \E pc \in {"engine", "connector"}, o \in ImportOutcomes :
       loadEngineResume(pc, o)
  \/ \E asked \in AskedTimeouts :
       sendCartRequestWith("SCENARO_CART_LIST_REQUEST", "none", nextId + 1, asked)
  \/ \E m \in toHost : handleMessage(m)
  \/ \E i \in Ids, o \in AdapterOutcomes : adapterSettle(i, o)
  \/ \E m \in BagToSet(toFrame) : listener(m)
  \/ \E k \in Ids : timeoutAt(k)
  \/ tick

TimerSpec == Init /\ [][TimerNext]_vars

----------------------------------------------------------------------------
\* Vocabulary of the properties.

IsCart(i) == tasks[i].via \in {"widget", "engine"}
IsCapability(i) == tasks[i].via = "capability"

\* The step transmits response m to the frame.
Transmits(m) == CopiesIn(m, toFrame') > CopiesIn(m, toFrame)
Registered(p) == promise[p] # "none"
Has(k) == k \in DOMAIN pendingRequests

\* The requests the handler that transmits m in this step may be answering:
\* the message it is dispatched with, or the payload it was suspended with.
RequestsAnswered(m) ==
  IF tasks[m.requestId].pc = "idle"
    THEN toHost \ toHost'
    ELSE {tasks[m.requestId].payload}

\* The names of a capability list.
Names(caps) == {caps[k] : k \in 1..Len(caps)}

\* The step dispatches response m to the client's listener.
Delivers(m) == BagIn(m, toFrame) /\ toFrame' = toFrame (-) SetToBag({m})

----------------------------------------------------------------------------
\* C1: every registered request is settled exactly once -- its callbacks are
\* invoked once, by the response or by the timer, whichever comes first, and
\* that settlement removes the entry; a request still unsettled is in the map
\* under its own callbacks with its timer armed, so it cannot stay unsettled.
C1_SettledExactlyOnce ==
  \A p \in Ids :
    Registered(p) =>
      /\ settleCalls[p] <= 1
      /\ settleCalls[p] = 1 <=> promise[p] # "pending"
      /\ promise[p] = "pending" =>
           Has(p) /\ pendingRequests[p] = p /\ p \in timers
      /\ promise[p] \in {"fulfilled", "rejected_timeout"} => ~Has(p)

\* C1 witness: a request answered first and whose timer fired afterwards.
C1_Witness ==
  \E p \in Ids :
    /\ promise[p] = "fulfilled"
    /\ settleCalls[p] = 1
    /\ p \notin timers
    /\ ~Has(p)

\* C2 (as claimed): every cart request whose handler has run to its end has
\* had exactly one CART_RESPONSE transmitted.
C2_ExactlyOneOnEveryPath ==
  \A i \in Ids :
    IsCart(i) /\ tasks[i].pc = "done" => sent[i] = 1

\* C2 (amended): per received cart request at most one CART_RESPONSE is
\* transmitted, none before its handler reaches its send, and at the send
\* exactly one if the iframe held by the sender (the widget for the
\* engine-not-ready fallback, the engine otherwise) is attached, else none.
C2_OneIfFrameAttached ==
  \A i \in Ids :
    IsCart(i) =>
      /\ sent[i] <= 1
      /\ tasks[i].pc # "done" => sent[i] = 0
      /\ tasks[i].pc = "done" => sent[i] = (IF tasks[i].live THEN 1 ELSE 0)

\* C2 witness: one request answered by the fallback and another one answered
\* by the engine after its adapter rejected.
C2_Witness ==
  \E i, j \in Ids :
    /\ tasks[i].via = "widget" /\ sent[i] = 1
    /\ tasks[j].via = "engine" /\ tasks[j].outcome = "reject" /\ sent[j] = 1

\* C3 (as claimed): a cart request handled while no engine is ready has its
\* failure response transmitted by the end of that handling.
C3_NeverDropped ==
  \A i \in Ids :
    tasks[i].via = "widget" => sent[i] = 1

\* C3 (amended): the step that handles a cart request while no engine with
\* handleCartRequest is loaded transmits, in that same step, one response with
\* success=false and that requestId if the widget's iframe is attached, and
\* transmits nothing if it is not.
C3_FailsFastIfFrameAttached ==
  [][\A m \in toHost :
       ( /\ m \notin toHost'
         /\ m.type \in cartRequestTypes
         /\ ~(engine.present /\ engine.handleCartRequest) )
       => LET r == CartResponse(m.requestId, FALSE, "none",
                                "Cart engine not ready")
          IN IF iframe = "attached"
               THEN /\ toFrame' = toFrame (+) SetToBag({r})
                    /\ sent' = [sent EXCEPT ![m.requestId] = 1]
                    /\ tasks'[m.requestId].pc = "done"
               ELSE UNCHANGED <<toFrame, sent>>]_vars

\* C3 witness: a caller settled by the engine-not-ready response.
C3_Witness ==
  \E i \in Ids :
    /\ tasks[i].via = "widget"
    /\ sent[i] = 1
    /\ promise[i] = "fulfilled"

\* C4 (as claimed): a request rejected for an absent target never has an entry
\* in the pending map and no timer.
C4_NoEntryWhenTargetAbsent ==
  \A p \in Ids :
    promise[p] = "rejected_target" => ~Has(p) /\ p \notin timers

\* C5 (as claimed): a transmitted request still unanswered has its timer armed,
\* a request rejected by its timeout is out of the map, and when no request is
\* unsettled the map is empty.
C5_MapEmptyWhenAllSettled ==
  /\ \A p \in Ids : promise[p] = "pending" => p \in timers
  /\ \A p \in Ids : promise[p] = "rejected_timeout" => ~Has(p)
  /\ (\A p \in Ids : promise[p] # "pending") => DOMAIN pendingRequests = {}

\* C6: the dispatch of a response whose identifier is not in the pending map
\* changes nothing on the client.
C6_LateResponseIsNoOp ==
  [][\A m \in BagToSet(toFrame) :
       Delivers(m) /\ ~Has(m.requestId)
       => UNCHANGED <<pendingRequests, timers, promise, settleCalls>>]_vars

\* C6 witness: a request rejected by its timeout whose response was
\* transmitted and has been dispatched since.
C6_Witness ==
  \E p \in Ids :
    /\ promise[p] = "rejected_timeout"
    /\ settleCalls[p] = 1
    /\ sent[p] = 1
    /\ toFrame = EmptyBag

\* C7: an entry holds the callbacks of its own request, and a pending request
\* is settled or removed only by the step that dispatches a response carrying
\* its identifier or by the firing of its own timer.
C7_NoCrossTalk ==
  /\ [](\A k \in DOMAIN pendingRequests : pendingRequests[k] = k)
  /\ [][\A b \in Ids :
          ( /\ promise[b] = "pending"
            /\ \/ promise'[b] # "pending"
               \/ settleCalls'[b] # settleCalls[b]
               \/ b \notin DOMAIN pendingRequests' )
          => \/ b \in timers /\ b \notin timers'
             \/ \E m \in BagToSet(toFrame) :
                  /\ m.type = "SCENARO_CART_RESPONSE"
                  /\ m.requestId = b
                  /\ Delivers(m)]_vars

\* C7 witness: of two requests pending together, the later one has been
\* answered and the earlier one is still pending.
C7_Witness ==
  /\ MaxReq >= 2
  /\ promise[1] = "pending"
  /\ promise[2] = "fulfilled"
  /\ Has(1)

\* C8: a response is transmitted only by the step in which the handler of the
\* request with that requestId returns; it is of the kind of that request and,
\* when successful, carries the result of the requested operation.
C8_ResponseCarriesItsRequestId ==
  [][\A m \in BagToSet(toFrame') :
       Transmits(m) =>
         /\ m.requestId \in Ids
         /\ tasks[m.requestId].pc # "done"
         /\ tasks'[m.requestId].pc = "done"
         /\ \E r \in (IF tasks[m.requestId].pc = "idle"
                        THEN toHost \ toHost'
                        ELSE {tasks[m.requestId].payload}) :
              /\ r.requestId = m.requestId
              /\ r.type \in cartRequestTypes =>
                   /\ m.type = "SCENARO_CART_RESPONSE"
                   /\ m.success => m.data = ResultOf(r.type)
              /\ r.type = "SCENARO_CAPABILITY_REQUEST" =>
                   /\ m.type = "SCENARO_CAPABILITY_RESPONSE"
                   /\ m.capabilities = tasks'[m.requestId].capabilities
                   /\ m.available = tasks'[m.requestId].available]_vars

\* C8 witness: the later of two requests has been answered through its adapter
\* or load while the earlier one is still awaiting its own.
C8_Witness ==
  /\ MaxReq >= 2
  /\ tasks[1].pc \in {"adapter", "connector", "engine"}
  /\ tasks[2].pc = "done"
  /\ tasks[2].outcome # "none"
  /\ sent[2] = 1

\* C9 (as claimed): when the load made for a capability request naming 'cart'
\* failed, the CapabilitySet does not report 'cart' as available.
C9_CartFalseWhenLoadFails ==
  \A i \in Ids :
    ( /\ IsCapability(i)
      /\ tasks[i].pc = "done"
      /\ tasks[i].outcome \in {"reject", "noexport"} )
    => "cart" \notin tasks[i].available

\* C10 (as claimed): every capability request whose handler has run to its end
\* has had exactly one CAPABILITY_RESPONSE transmitted.
C10_ExactlyOneResponse ==
  \A i \in Ids :
    IsCapability(i) /\ tasks[i].pc = "done" => sent[i] = 1

\* C10 (amended): per received capability request at most one
\* CAPABILITY_RESPONSE is transmitted; while the handler awaits an import of
\* its adapter load none has been transmitted and the handler can resume
\* whatever close() or END did meanwhile; when the handler returns exactly one
\* has been transmitted if the widget's iframe was attached at that moment,
\* and none if it was not.
C10_OneResponseIfFrameAttached ==
  \A i \in Ids :
    IsCapability(i) =>
      /\ sent[i] <= 1
      /\ tasks[i].pc # "done" =>
           /\ sent[i] = 0
           /\ \A o \in ImportOutcomes \ {"noexport"} :
                ENABLED loadAdapterResume(i, o)
      /\ tasks[i].pc = "done" => sent[i] = (IF tasks[i].live THEN 1 ELSE 0)

\* C10 witness: a request naming two capabilities whose load failed and whose
\* single response has been transmitted.
C10_Witness ==
  \E i \in Ids :
    /\ IsCapability(i)
    /\ tasks[i].pc = "done"
    /\ tasks[i].outcome = "reject"
    /\ tasks[i].capabilities = {"cart", "video"}
    /\ sent[i] = 1

\* C11: the CapabilitySet of a transmitted CAPABILITY_RESPONSE has exactly the
\* requested names as keys and no name other than 'cart' maps to true; with an
\* adapter identifier (hint, else detected platform) and a load that succeeded
\* 'cart' maps to true; without an adapter identifier 'cart' maps to false.
C11_CapabilitySetOfRequest ==
  [][\A m \in BagToSet(toFrame') :
       Transmits(m) /\ m.type = "SCENARO_CAPABILITY_RESPONSE" =>
         \E r \in RequestsAnswered(m) :
           /\ r.requestId = m.requestId
           /\ m.capabilities = Names(r.capabilities)
           /\ m.available \subseteq {"cart"}
           /\ ( /\ r.adapter \/ requirejs
                /\ "cart" \in Names(r.capabilities)
                /\ tasks'[m.requestId].outcome = "module" )
              => "cart" \in m.available
           /\ ~(r.adapter \/ requirejs) => "cart" \notin m.available]_vars

\* C11 witness: the response {cart: true, video: false} of a request whose
\* adapter and engine were loaded is in transit.
C11_Witness ==
  \E m \in BagToSet(toFrame) :
    /\ m.type = "SCENARO_CAPABILITY_RESPONSE"
    /\ m.capabilities = {"cart", "video"}
    /\ m.available = {"cart"}
    /\ tasks[m.requestId].outcome = "module"

\* C12 (as claimed): while the widget holds an Engine instance bound to the
\* frame of the open session, no capability handler constructs another one.
C12_EngineMemoized ==
  [][\A i \in Ids :
       ( /\ engine.present
         /\ ContentWindow(engine.iframe)
         /\ tasks[i].pc = "engine" )
       => ~loadAdapterResume(i, "module")]_vars

\* C13 (as claimed): once a CAPABILITY_RESPONSE with cart: true has been sent
\* to the frame now attached, no CART_LIST_REQUEST is answered with an
\* unavailability failure.
C13_CartTrueMeansListServed ==
  [][\A m \in BagToSet(toFrame') :
       ( /\ reported
         /\ Transmits(m)
         /\ m.type = "SCENARO_CART_RESPONSE"
         /\ \E r \in RequestsAnswered(m) :
              r.type = "SCENARO_CART_LIST_REQUEST" )
       => m.error \notin {"Cart engine not ready", "No CMS connector detected",
                          "listCart method not available"}]_vars

\* C14 (as claimed): whenever the widget has no frame it retains no Engine
\* instance.
C14_EngineClearedOnClose ==
  iframe = "null" => ~engine.present

\* C15: at most one frame is attached at any time, namely the one the widget
\* holds, and a call of open() while a frame is present changes nothing: no
\* callback of 'open' is invoked, no frame is created, no engine load is
\* started and the metadata are left as they are.
C15_OneFrameAndOpenIsNoOp ==
  /\ [](attached <= 1 /\ (attached = 1 <=> iframe = "attached"))
  /\ [][\A c \in Configs :
          (iframe # "null" /\ open(c)) => UNCHANGED vars]_vars

\* C15 witness: a second session is open, after a first one was closed, with
\* a callback of 'open' registered since before the first and metadata given.
C15_Witness ==
  /\ iframe = "attached"
  /\ attached = 1
  /\ Registrations("open", "f") = 1
  /\ calls["f"] = 2
  /\ calls["g"] = 1
  /\ metadata # NoMetadata

\* C16 (as claimed): in the widget that fetches its configuration inside
\* open(), at most one frame is ever attached.
C16_OneFrameWhileFetching ==
  attached <= 1

\* C17 (as claimed): no adapter method of an ADD, UPDATE or REMOVE request is
\* invoked unless the payload has every field the operation requires.
C17_NoPartialInvocation ==
  \A i \in Ids :
    (tasks[i].pc = "adapter" /\ tasks[i].payload.type \in NeedsData)
    => tasks[i].payload.data = "full"

\* C18: a settling adapter call is turned into one response and nothing else.
\* When the call resolves, the response is success=true with the value the
\* call resolved with, except that a CLEAR answers with {cleared: true} and
\* that a value which cannot be posted is answered as a failure; when it
\* rejects, the response is success=false with the error's message, or with
\* 'Unknown error occurred' when that message is empty. The handler ends in
\* the same step, and a response is transmitted exactly when the engine's
\* iframe has a contentWindow.
C18_OutcomeNormalized ==
  [][\A i \in Ids, o \in AdapterOutcomes :
       adapterSettle(i, o) =>
         LET m == tasks[i].payload
             clear == m.type = "SCENARO_CART_CLEAR_REQUEST"
             expected ==
               CASE o = "resolve" ->
                      CartResponse(i, TRUE,
                                   IF clear THEN "cleared" ELSE "cart", "")
                 [] o = "uncloneable" ->
                      IF clear THEN CartResponse(i, TRUE, "cleared", "")
                      ELSE CartResponse(i, FALSE, "none", "could not be cloned")
                 [] o = "reject" ->
                      CartResponse(i, FALSE, "none", "adapter error")
                 [] o = "rejectEmpty" ->
                      CartResponse(i, FALSE, "none", "Unknown error occurred")
         IN /\ tasks'[i].pc = "done"
            /\ IF ContentWindow(EngineIframe(tasks[i]))
                 THEN /\ toFrame' = toFrame (+) SetToBag({expected})
                      /\ sent'[i] = sent[i] + 1
                 ELSE UNCHANGED <<toFrame, sent>>]_vars

\* C18 witness: the three kinds of outcome have each been answered -- a
\* resolved call, a rejected call whose error has no message, and a resolved
\* CLEAR.
C18_Witness ==
  /\ BagIn(CartResponse(1, FALSE, "none", "Unknown error occurred"), toFrame)
  /\ BagIn(CartResponse(2, TRUE, "cleared", ""), toFrame)

\* C18 (as claimed): a resolved call is answered with the data it resolved
\* with, a rejected one with its error's message as it is.
C18_Verbatim ==
  [][\A i \in Ids, o \in AdapterOutcomes :
       (adapterSettle(i, o) /\ ContentWindow(EngineIframe(tasks[i]))) =>
         LET m == tasks[i].payload
         IN IF o \in {"resolve", "uncloneable"}
              THEN Transmits(CartResponse(i, TRUE, AdapterValue(m.type, o), ""))
              ELSE Transmits(CartResponse(i, FALSE, "none", MessageOf(o)))]_vars

C20_CloseSettlesNothing ==
  /\ [][closeRecorded =>
          UNCHANGED <<pendingRequests, timers, promise, settleCalls,
                      toFrame, sent, toHost>>]_vars
  /\ [][\A i \in Ids : sent'[i] > sent[i] => iframe = "attached"]_vars
  /\ [](\A i \in orphaned :
          /\ settleCalls[i] <= 1
          /\ promise[i] = "fulfilled" => sent[i] >= 1
          /\ (promise[i] = "pending" /\ sent[i] = 0) => i \in timers)
  /\ [][\A i \in Ids :
          (promise[i] = "pending" /\ promise'[i] # "pending" /\ sent[i] = 0)
          => (timeout(i) /\ promise'[i] = "rejected_timeout")]_vars

\* C20 witness: a request was unanswered when the frame was removed, no
\* response to it was ever transmitted, and its timeout has rejected it.
C20_Witness ==
  \E i \in orphaned :
    /\ sent[i] = 0
    /\ promise[i] = "rejected_timeout"
    /\ settleCalls[i] = 1

\* C20 (as claimed): a request that was unanswered when the frame was removed
\* receives no response.
C20_NoResponseAfterClose ==
  \A i \in orphaned : sent[i] = 0

\* C21: the promise of a request is rejected only by the firing of its own
\* timer or, at the send, because the iframe is absent; the dispatch of a
\* CART_RESPONSE whose identifier is pending fulfils that promise, whether
\* the response reports a success or a failure.
C21_OnlyTimeoutOrTargetReject ==
  /\ [](\A p \in Ids :
          promise[p] \in {"none", "pending", "fulfilled", "rejected_timeout",
                          "rejected_target"})
  /\ [][\A p \in Ids :
          /\ (promise[p] # "rejected_timeout" /\ promise'[p] = "rejected_timeout")
               => (timeout(p) /\ promise[p] = "pending")
          /\ (promise[p] # "rejected_target" /\ promise'[p] = "rejected_target")
               => (promise[p] = "none" /\ nextId' = p /\ ~TargetPresent)]_vars
  /\ [][\A m \in BagToSet(toFrame) :
          ( /\ Delivers(m)
            /\ m.type = "SCENARO_CART_RESPONSE"
            /\ Has(m.requestId)
            /\ promise[m.requestId] = "pending" )
          => promise'[m.requestId] = "fulfilled"]_vars

\* C21 witness: a request answered 'Cart engine not ready' by the widget has
\* had its promise fulfilled by that response.
C21_Witness ==
  \E p \in Ids :
    /\ tasks[p].pc = "done" /\ tasks[p].via = "widget"
    /\ sent[p] = 1
    /\ promise[p] = "fulfilled"
    /\ settleCalls[p] = 1

\* C22 (as claimed): an entry of the pending map is never overwritten -- as
\* long as an identifier stays in the map it stays mapped to the callbacks of
\* the request that registered it.
C22_NeverOverwritten ==
  [][\A k \in DOMAIN pendingRequests :
       k \in DOMAIN pendingRequests' => pendingRequests'[k] = pendingRequests[k]]_vars

\* C23 (as claimed): on each emission of an event, a callback registered k
\* times for it is invoked k times.
C23_InvokedOncePerRegistration ==
  [][/\ (iframe = "null" /\ iframe' # "null") =>
          \A cb \in Callbacks :
            calls'[cb] = calls[cb] + Registrations("open", cb)
     /\ (iframe # "null" /\ iframe' = "null") =>
          \A cb \in Callbacks :
            calls'[cb] = calls[cb] + Registrations("close", cb)]_vars

\* C24: updateMetadata(m) merges m over the accumulated metadata -- the keys
\* of m win, the other keys are retained; one METADATA message carrying the
\* merged map is posted if and only if a frame is present and the merged map
\* has at least one key; close() leaves the metadata as it is and open()
\* only merges its config over it.
C24_MergedAndSentIfFrame ==
  /\ [][\A patch \in Patches :
          updateMetadata(patch) =>
            /\ \A k \in MetaKeys :
                 metadata'[k] = IF patch[k] # "unset" THEN patch[k]
                                                     ELSE metadata[k]
            /\ IF iframe # "null" /\ ~IsEmpty(metadata')
                 THEN toFrame' = toFrame (+) SetToBag({MetadataMessage(metadata')})
                 ELSE toFrame' = toFrame]_vars
  /\ [][close => metadata' = metadata]_vars
  /\ [][\A c \in Configs :
          open(c) => \A k \in MetaKeys :
                       metadata'[k] # metadata[k] => metadata'[k] = c[k]]_vars

\* C24 witness: metadata set while no frame was there has been kept through
\* an open and a close, and an update made with a frame present has been
\* posted with both keys.
C24_Witness ==
  /\ iframe = "null"
  /\ metadata = [language |-> "en", userId |-> "u1"]
  /\ BagIn(MetadataMessage([language |-> "en", userId |-> "u1"]), toFrame)

\* C24 (as claimed): with a frame present, updateMetadata always posts a
\* METADATA message.
C24_SentWheneverFrame ==
  [][\A patch \in Patches :
       (updateMetadata(patch) /\ iframe # "null") =>
         toFrame' = toFrame (+) SetToBag({MetadataMessage(metadata')})]_vars

\* C25 (as claimed): the timer of a pending request can fire once the
\* timeout of the call has elapsed since its registration -- ten seconds, or
\* the timeout the call specifies.
C25_ExpiresAfterItsOwnTimeout ==
  \A k \in Ids :
    ( /\ promise[k] = "pending"
      /\ k \in timers
      /\ now >= deadlines[k].at + (IF deadlines[k].asked = 0
                                     THEN TimeoutDelay
                                     ELSE deadlines[k].asked) )
    => ENABLED timeoutAt(k)

\* C26: the identifier of a cart request is in the pending map from the step
\* that transmits the request: a request in the channel, a request being
\* handled by the host and a response on its way to the client all carry an
\* identifier that is registered or whose promise a response or the timer
\* has settled since.
C26_RegisteredBeforeTransmitted ==
  LET Known(id) == Has(id) \/ promise[id] \in {"fulfilled", "rejected_timeout"}
  IN /\ \A m \in toHost : m.type \in cartRequestTypes => Known(m.requestId)
     /\ \A i \in Ids : (IsCart(i) /\ tasks[i].pc = "adapter") => Known(i)
     /\ \A m \in BagToSet(toFrame) :
          m.type = "SCENARO_CART_RESPONSE" => Known(m.requestId)

\* C26 witness: one request is in the channel and the response to another is
\* on its way, both still registered and pending.
C26_Witness ==
  /\ \E m \in toHost :
       /\ m.type \in cartRequestTypes
       /\ Has(m.requestId) /\ promise[m.requestId] = "pending"
  /\ \E m \in BagToSet(toFrame) :
       /\ m.type = "SCENARO_CART_RESPONSE"
       /\ Has(m.requestId) /\ promise[m.requestId] = "pending"

\* C27 (as claimed): no message makes handleMessage raise an error.
C27_NeverRaises ==
  \A k \in 1..Len(journal.last) : journal.last[k] # "TypeError"

\* C28 (as claimed): when READY is handled, every callback registered for
\* 'ready' is invoked once per registration.
C28_ReadyListenersNotifiedOnce ==
  [][\A m \in toHost :
       (handleMessageRecorded(m) /\ Classify(m) = "ready") =>
         \A cb \in Callbacks :
           calls'[cb] = calls[cb] + Registrations("ready", cb)]_vars

\* C29: when READY is handled, one METADATA message carrying the accumulated
\* metadata is posted to the frame if a frame is present and the metadata
\* has at least one key; otherwise nothing is posted.
C29_MetadataOnReadyIfAny ==
  [][\A m \in toHost :
       (handleMessageRecorded(m) /\ Classify(m) = "ready") =>
         IF iframe # "null" /\ ~IsEmpty(metadata)
           THEN toFrame' = toFrame (+) SetToBag({MetadataMessage(metadata)})
           ELSE toFrame' = toFrame]_vars

\* C29 witness: READY was the last message handled, with a session open, and
\* the metadata given to open() is on its way to the frame.
C29_Witness ==
  /\ iframe = "attached"
  /\ journal.last # <<>> /\ journal.last[1] = "emit ready"
  /\ metadata = [language |-> "fr", userId |-> "unset"]
  /\ BagIn(MetadataMessage(metadata), toFrame)

\* C29 (as claimed): a READY handled while a session is open always has one
\* METADATA message posted.
C29_MetadataOnEveryReady ==
  [][\A m \in toHost :
       (handleMessageRecorded(m) /\ Classify(m) = "ready" /\ iframe # "null")
       => toFrame' = toFrame (+) SetToBag({MetadataMessage(metadata)})]_vars

\* C30 (as claimed): when END is handled with an engine loaded, the engine's
\* end-of-session step comes before the notification of the 'end' listeners.
C30_EngineEndBeforeListeners ==
  \A j, k \in 1..Len(journal.last) :
    (journal.last[j] = "engine.onEnd" /\ journal.last[k] = "emit end") => j < k

\* C31 (as claimed): whenever a cart request is forwarded to the Engine
\* instance while a session is open, the frame reference of that instance is
\* the frame of the session: it is neither absent nor a frame removed by an
\* earlier close.
C31_ForwardedToCurrentFrame ==
  [][\A m \in toHost :
       ( /\ m \notin toHost'
         /\ m.type \in cartRequestTypes
         /\ EngineReady
         /\ iframe # "null" )
       => engine.iframe = iframe]_vars

C33_ForwardedOnlyOnceInitialized ==
  [][\A m \in toHost :
       ( /\ m \notin toHost'
         /\ m.type \in cartRequestTypes
         /\ EngineReady )
       => engine.initialized]_vars

\* C34 (as claimed): in a session in which READY has been received and the
\* widget holds an Engine whose load has finished, the connect step of that
\* Engine is eventually invoked, unless the session is closed first.
C34_ConnectEventually ==
  (ready /\ engine.present /\ engine.initialized)
    ~> (engine.connected \/ ~ready)

\* C35: with one listener f registered for 'open' and one listener g for
\* 'close' before the first session, g is invoked in a step exactly when that
\* step removes the attached frame -- close() or END with no frame attached
\* removes nothing and emits nothing -- and g has never been invoked more
\* often than f: there are never more 'close' than 'open' emissions.
C35_CloseEmittedWithRemoval ==
  /\ [](calls["g"] <= calls["f"])
  /\ [][Watching =>
          /\ calls'["g"] \in {calls["g"], calls["g"] + 1}
          /\ calls'["g"] = calls["g"] + 1
               <=> (iframe = "attached" /\ iframe' = "null"
                      /\ attached' = attached - 1)
          /\ iframe = "null" => (iframe' = "null" => attached' = attached)]_vars

\* C35 witness: two sessions have been opened and ended, each with its 'open'
\* and its 'close' emission, and no frame is left.
C35_Witness ==
  /\ Watching
  /\ calls["f"] = 2
  /\ calls["g"] = 2
  /\ iframe = "null"
  /\ attached = 0
  /\ toHost = {}

\* C36: CLEAR is fail-stop. The step in which the removal of a listed item
\* fails leaves the cart as it is, starts no further removal, and transmits
\* the one response of the request, success=false with the error message of
\* that removal, if the engine's iframe has a contentWindow; when no other
\* clear has removed anything, the listed items after the failed one that have
\* an item_id are all in the cart. A failed clear never does anything again.
C36_ClearFailStop ==
  /\ [](\A i \in Ids :
          clears[i].pc = "failed" =>
            /\ clears[i].inflight = {}
            /\ tasks[i].pc = "done"
            /\ tasks[i].outcome = "reject"
            /\ sent[i] <= 1)
  /\ [][\A i \in Ids :
          /\ (clears[i].pc = "remove" /\ clears'[i].pc = "failed") =>
               /\ cart' = cart
               /\ clears'[i].removals = clears[i].removals
               /\ IF ContentWindow(EngineIframe(tasks[i]))
                    THEN /\ Transmits(CartResponse(i, FALSE, "none",
                                        ErrorMessage(MessageOf("reject"))))
                         /\ sent'[i] = 1
                    ELSE UNCHANGED <<toFrame, sent>>
               /\ (\A o \in Ids \ {i} :
                     clears[o].removals = 0 /\ clears[o].inflight = {})
                  => \A k \in clears[i].inflight :
                       \A j \in (k + 1)..Len(clears[i].items) :
                         clears[i].items[j] # 0
                           => \E n \in 1..Len(cart') :
                                cart'[n] = clears[i].items[j]
          /\ clears[i].pc = "failed" =>
               /\ clears'[i] = clears[i]
               /\ sent'[i] = sent[i]]_vars

\* C36 witness: a CLEAR that listed three items removed the first, failed on
\* the second and answered once; the third item is still in the cart.
C36_Witness ==
  \E i \in Ids :
    /\ clears[i].pc = "failed"
    /\ clears[i].items = <<1, 2, 3>>
    /\ clears[i].removals = 1
    /\ sent[i] = 1
    /\ cart = <<2, 3>>

============================================================================
